---------------------------- MODULE Spec2Model ----------------------------
(***************************************************************************)
(* Model of src/app.py: the RealTimeTranslator session (constructor,       *)
(* listen_and_translate, text_to_speech, cleanup, manage_cache) and main.  *)
(*                                                                         *)
(* A value of pc names the blocking call the process is inside.  An action *)
(* is the return of that call with one of its outcomes, followed by the    *)
(* code that runs up to the next blocking call.  KeyboardInterrupt is      *)
(* raised asynchronously, inside whichever call is in progress.            *)
(***************************************************************************)
EXTENDS Integers, Sequences, FiniteSets, TLC

\* ------------------------------------------------------------------ bounds
MaxIter == 2        \* utterances captured, over all runs
MaxTicks == 2       \* clock advances
MaxCacheLen == 11   \* entries of a cache given to manage_cache
MaxCacheSize == 10  \* max_cache_size given to manage_cache

\* --------------------------------------------------------- program constants
max_retries == 3              \* text_to_speech(self, text, max_retries=3)
calibration_passes == 3       \* for i in range(3)
TTL == 86400                  \* current_time - st_mtime > 86400
default_max_cache_size == 1000

\* ------------------------------------------------------------ input domains
Langs == {"fr", "es"}
Texts == {"hello", "thanks"}
Translations == {"bonjour", "salut"}
TickSteps == {3600, 86400}

\* hashlib.md5(text.encode()).hexdigest(), tabulated on the translations used
md5(x) ==
  CASE x = "bonjour" -> "f02368945726d5fc2a14eb576f7276c0"
    [] x = "salut"   -> "3ed7dceaf266cafef032b9d5db224717"
    [] x = "merci"   -> "8e105cee0ab7650cc3a3751bd986dbf5"
    [] x = "hola"    -> "4d186321c1a7f0f354b297e8914ab240"

cache_dir == "translation_cache"

get_audio_filename_nolang(lang, x) ==
  cache_dir \o "/audio_" \o md5(x) \o ".mp3"

\* self.cache_dir / f"audio_{self.target_lang}_{text_hash}.mp3"
get_audio_filename(lang, x) ==
  cache_dir \o "/audio_" \o lang \o "_" \o md5(x) \o ".mp3"

Paths == {get_audio_filename(l, x) : l \in Langs, x \in Translations}

NoFile == [exists |-> FALSE, mtime |-> 0, complete |-> FALSE]

\* --------------------------------------- dict (insertion ordered) operations
Keys(d) == {d[i].k : i \in 1..Len(d)}

\* text in self.translation_cache
InCache(d, key) == key \in Keys(d)

\* self.translation_cache[text]
Lookup(d, key) == d[CHOOSE i \in 1..Len(d) : d[i].k = key].v

DictSet_nostore(d, key, val) == d

\* self.translation_cache[text] = translation
DictSet(d, key, val) ==
  IF key \in Keys(d)
    THEN [i \in 1..Len(d) |-> IF d[i].k = key THEN [k |-> key, v |-> val] ELSE d[i]]
    ELSE Append(d, [k |-> key, v |-> val])

\* ------------------------------------------------------------------ events
Ev(op, arg, out) == [op |-> op, arg |-> arg, out |-> out]

PyBool(b) == IF b THEN "True" ELSE "False"

VARIABLES
  pc,                \* the blocking call in progress
  target_lang,       \* self.target_lang
  dir_exists,        \* translation_cache/ exists on disk
  translation_cache, \* self.translation_cache, in insertion order
  files,             \* the *.mp3 files of the cache directory
  now,               \* time.time()
  text,              \* local of listen_and_translate
  translation,       \* local of listen_and_translate
  attempt,           \* loop variable of text_to_speech
  cal_pass,          \* loop variable of adjust_for_ambient_noise
  max_cache_size,    \* argument of manage_cache
  exit_status,       \* how the process run ends
  \* history variables
  log,               \* calls returned in the current iteration, in order
  submitted,         \* texts given to translator.translate in this run
  synthesized,       \* paths given to gTTS(...).save in this run
  played,            \* per text, the path of its first playback in this run
  cancelled,         \* KeyboardInterrupt was raised in this run
  cleanupRuns,       \* cleanup() calls in this run
  sweep,             \* what the last cleanup() did
  cache_before,      \* the cache before the last manage_cache()
  iter,              \* utterances captured so far
  ticks              \* clock advances so far

vars == <<pc, target_lang, dir_exists, translation_cache, files, now, text,
          translation, attempt, cal_pass, max_cache_size, exit_status, log,
          submitted, synthesized, played, cancelled, cleanupRuns, sweep,
          cache_before, iter, ticks>>

object == <<target_lang, translation_cache>>
locals == <<text, translation, attempt, cal_pass>>
history == <<submitted, synthesized, played>>
evict == <<max_cache_size, cache_before>>
disk == <<dir_exists, files>>
clock == <<now, ticks>>
ending == <<exit_status, cancelled, cleanupRuns, sweep>>

NoSweep == [time |-> 0, before |-> [p \in Paths |-> NoFile], raised |-> FALSE,
            examined |-> {}, unlink_failed |-> {}]

Init ==
  /\ pc = "construct"
  /\ target_lang = ""
  /\ dir_exists = FALSE
  /\ translation_cache = <<>>
  /\ files = [p \in Paths |-> NoFile]
  /\ now = 0
  /\ text = ""
  /\ translation = ""
  /\ attempt = 0
  /\ cal_pass = 0
  /\ max_cache_size = default_max_cache_size
  /\ exit_status = "running"
  /\ log = <<>>
  /\ submitted = {}
  /\ synthesized = {}
  /\ played = [t \in Texts |-> ""]
  /\ cancelled = FALSE
  /\ cleanupRuns = 0
  /\ sweep = NoSweep
  /\ cache_before = <<>>
  /\ iter = 0
  /\ ticks = 0

\* --------------------------------------------------------------- dead values
\* text, translation, attempt and i are dead once their loop body has ended
\* (each is assigned again before it is read): they are cleared, so that
\* states that differ only in dead values coincide
DeadLocals ==
  /\ text' = ""
  /\ translation' = ""
  /\ attempt' = 0
  /\ cal_pass' = 0

\* once the loop is left nothing reads the object or the locals again (cleanup
\* reads cache_dir only): they are cleared as dead values
DeadObject ==
  /\ target_lang' = ""
  /\ translation_cache' = <<>>
  /\ submitted' = {}
  /\ synthesized' = {}
  /\ played' = [t \in Texts |-> ""]
  /\ DeadLocals

\* ------------------------------------------------------- RealTimeTranslator
\* __init__: the probe translation succeeds, the cache directory is made
ConstructOk ==
  /\ pc = "construct"
  /\ \E lang \in Langs : target_lang' = lang
  /\ dir_exists' = TRUE
  /\ translation_cache' = <<>>
  /\ pc' = "mic"
  /\ UNCHANGED <<files, clock, locals, evict, ending, log, history, iter>>

ConstructFail_mkdir ==
  /\ pc = "construct"
  /\ pc' = "exited"
  /\ exit_status' = "ValueError"
  /\ dir_exists' = TRUE
  /\ UNCHANGED <<object, files, clock, locals, evict, cancelled, cleanupRuns,
                 sweep, log, history, iter>>

\* __init__: the probe translation raises; ValueError reaches main's handler
ConstructFail ==
  /\ pc = "construct"
  /\ pc' = "exited"
  /\ exit_status' = "ValueError"
  /\ UNCHANGED <<object, disk, clock, locals, evict, cancelled, cleanupRuns,
                 sweep, log, history, iter>>

\* KeyboardInterrupt during __init__: no handler of main catches it
ConstructInterrupt ==
  /\ pc = "construct"
  /\ pc' = "exited"
  /\ exit_status' = "killed"
  /\ cancelled' = TRUE
  /\ UNCHANGED <<object, disk, clock, locals, evict, cleanupRuns, sweep, log,
                 history, iter>>

\* with sr.Microphone() as source
OpenMicrophoneOk ==
  /\ pc = "mic"
  /\ pc' = "calibrate"
  /\ UNCHANGED <<object, disk, clock, locals, evict, ending, log, history, iter>>

\* sr.Microphone() raises: the finally clause runs cleanup, main reports
OpenMicrophoneFail ==
  /\ pc = "mic"
  /\ pc' = "cleanup"
  /\ exit_status' = "Exception"
  /\ log' = <<Ev("mic", "", "Exception")>>
  /\ DeadObject
  /\ UNCHANGED <<disk, clock, evict, cancelled, cleanupRuns, sweep, iter>>

\* adjust_for_ambient_noise: one pass of "for i in range(3)" returns
CalibrateOk ==
  /\ pc = "calibrate"
  /\ IF cal_pass + 1 < calibration_passes
       THEN /\ cal_pass' = cal_pass + 1
            /\ pc' = "calibrate"
       ELSE /\ cal_pass' = 0
            /\ pc' = "listen"
  /\ log' = Append(log, Ev("calibrate", "1", "ok"))
  /\ UNCHANGED <<object, disk, clock, text, translation, attempt, evict,
                 ending, history, iter>>

CalibrateFail_abort ==
  /\ pc = "calibrate"
  /\ pc' = "cleanup"
  /\ exit_status' = "Exception"
  /\ log' = <<Ev("calibrate", "1", "Exception")>>
  /\ DeadObject
  /\ UNCHANGED <<disk, clock, evict, cancelled, cleanupRuns, sweep, iter>>

\* adjust_for_ambient_noise: a pass raises, the warning is printed
CalibrateFail ==
  /\ pc = "calibrate"
  /\ pc' = "listen"
  /\ cal_pass' = 0
  /\ log' = Append(log, Ev("calibrate", "1", "Exception"))
  /\ UNCHANGED <<object, disk, clock, text, translation, attempt, evict,
                 ending, history, iter>>

ExceptHandler_nocatch(exc) ==
  CASE exc = "WaitTimeoutError"  -> "listen"
    [] exc = "UnknownValueError" -> "listen"
    [] exc = "RequestError"      -> "listen"
    [] OTHER                     -> "cleanup"

ExceptHandler_proceed(exc) ==
  CASE exc = "WaitTimeoutError"  -> "listen"
    [] exc = "UnknownValueError" -> "pause"
    [] exc = "RequestError"      -> "listen"
    [] OTHER                     -> "cooldown"

ExceptHandler_cooldown(exc) ==
  CASE exc = "WaitTimeoutError"  -> "listen"
    [] exc = "UnknownValueError" -> "listen"
    [] exc = "RequestError"      -> "cooldown"
    [] OTHER                     -> "cooldown"

\* the except clauses of the loop body; the loop then calls listen again
ExceptHandler(exc) ==
  CASE exc = "WaitTimeoutError"  -> "listen"
    [] exc = "UnknownValueError" -> "listen"
    [] exc = "RequestError"      -> "listen"
    [] OTHER                     -> "cooldown"

\* an exception of the loop body: a handler of the loop takes it, or it leaves
\* the loop, the finally clause runs cleanup and main reports it
Raise(exc, lg) ==
  /\ pc' = ExceptHandler(exc)
  /\ IF ExceptHandler(exc) = "cleanup"
       THEN /\ exit_status' = "Exception"
            /\ log' = <<lg[Len(lg)]>>
            /\ DeadObject
       ELSE /\ exit_status' = exit_status
            /\ log' = lg
            /\ DeadLocals
            /\ UNCHANGED <<object, history>>

ListenFailures == {"WaitTimeoutError", "Exception"}
RecognizeFailures == {"UnknownValueError", "RequestError", "Exception"}

\* recognizer.listen returns audio
ListenOk ==
  /\ pc = "listen"
  /\ iter < MaxIter
  /\ iter' = iter + 1
  /\ pc' = "recognize"
  /\ log' = <<Ev("listen", "", "ok")>>
  /\ UNCHANGED <<object, disk, clock, locals, evict, ending, history>>

\* recognizer.listen raises
ListenFail ==
  /\ pc = "listen"
  /\ \E exc \in ListenFailures : Raise(exc, <<Ev("listen", "", exc)>>)
  /\ UNCHANGED <<disk, clock, evict, cancelled, cleanupRuns, sweep, iter>>

\* recognizer.recognize_google returns the text
RecognizeOk ==
  /\ pc = "recognize"
  /\ \E t \in Texts :
       /\ text' = t
       /\ log' = Append(log, Ev("recognize", t, "ok"))
  /\ pc' = "pause"
  /\ UNCHANGED <<object, disk, clock, translation, attempt, cal_pass, evict,
                 ending, history, iter>>

\* recognizer.recognize_google raises
RecognizeFail ==
  /\ pc = "recognize"
  /\ \E exc \in RecognizeFailures :
       Raise(exc, Append(log, Ev("recognize", "", exc)))
  /\ UNCHANGED <<disk, clock, evict, cancelled, cleanupRuns, sweep, iter>>

\* ------------------------------------------------------------ text_to_speech
AttemptPc_always(fs, p) == "synthesize"

AttemptPc_never(fs, p) == "play"

\* if not audio_file.exists(): gTTS(...).save(...)  /  playsound(...)
AttemptPc(fs, p) == IF ~fs[p].exists THEN "synthesize" ELSE "play"

\* one pass of "for attempt in range(max_retries)" up to its first blocking call
EnterAttempt(tr, a, lg) ==
  LET p == get_audio_filename(target_lang, tr) IN
    /\ attempt' = a
    /\ pc' = AttemptPc(files, p)
    /\ synthesized' = IF AttemptPc(files, p) = "synthesize"
                        THEN synthesized \cup {p} ELSE synthesized
    /\ log' = Append(lg, Ev("exists", p, PyBool(files[p].exists)))

IsLastAttempt_off(a) == a = max_retries

IsLastAttempt_first(a) == a = 0

\* if attempt == max_retries - 1
IsLastAttempt(a) == a = max_retries - 1

\* "except Exception" of text_to_speech
AttemptFailed(lg) ==
  IF IsLastAttempt(attempt)
    THEN /\ pc' = "listen"
         /\ log' = Append(lg, Ev("report", "text_to_speech", "failed"))
         /\ DeadLocals
    ELSE /\ pc' = "retry_sleep"
         /\ log' = lg
         /\ UNCHANGED locals

\* time.sleep(0.5) returns; the cache lookup follows
Pause ==
  /\ pc = "pause"
  /\ LET lg == Append(log, Ev("sleep", "0.5", "ok")) IN
       IF InCache(translation_cache, text)
         THEN /\ translation' = Lookup(translation_cache, text)
              /\ EnterAttempt(Lookup(translation_cache, text), 0, lg)
              /\ UNCHANGED <<submitted>>
         ELSE /\ pc' = "translate"
              /\ submitted' = submitted \cup {text}
              /\ log' = lg
              /\ UNCHANGED <<translation, attempt, synthesized>>
  /\ UNCHANGED <<object, disk, clock, text, cal_pass, evict, ending, played,
                 iter>>

\* translator.translate returns; the result is stored; text_to_speech starts
TranslateOk ==
  /\ pc = "translate"
  /\ \E tr \in Translations :
       /\ translation' = tr
       /\ translation_cache' = DictSet(translation_cache, text, tr)
       /\ EnterAttempt(tr, 0, Append(log, Ev("translate", text, tr)))
  /\ UNCHANGED <<target_lang, disk, clock, text, cal_pass, evict, ending,
                 submitted, played, iter>>

TranslateFail_store ==
  /\ pc = "translate"
  /\ pc' = "cooldown"
  /\ translation_cache' = DictSet(translation_cache, text, "")
  /\ log' = Append(log, Ev("translate", text, "Exception"))
  /\ DeadLocals
  /\ UNCHANGED <<target_lang, history, disk, clock, evict, ending, iter>>

\* translator.translate raises
TranslateFail ==
  /\ pc = "translate"
  /\ Raise("Exception", Append(log, Ev("translate", text, "Exception")))
  /\ UNCHANGED <<disk, clock, evict, cancelled, cleanupRuns, sweep, iter>>

\* gTTS(...).save(...) returns: the artifact is written
SynthesizeOk ==
  /\ pc = "synthesize"
  /\ LET p == get_audio_filename(target_lang, translation) IN
       /\ files' = [files EXCEPT ![p] =
                      [exists |-> TRUE, mtime |-> now, complete |-> TRUE]]
       /\ log' = Append(log, Ev("synthesize", p, "ok"))
  /\ pc' = "play"
  /\ UNCHANGED <<object, dir_exists, clock, locals, evict, ending, history, iter>>

\* what an unfinished save leaves at the path: nothing, or a partial file
Leftover(fs, p, t) ==
  {fs, [fs EXCEPT ![p] = [exists |-> TRUE, mtime |-> t, complete |-> FALSE]]}

\* gTTS(...).save(...) raises
SynthesizeFail ==
  /\ pc = "synthesize"
  /\ LET p == get_audio_filename(target_lang, translation) IN
       /\ files' \in Leftover(files, p, now)
       /\ AttemptFailed(Append(log, Ev("synthesize", p, "Exception")))
  /\ UNCHANGED <<object, dir_exists, clock, evict, ending, history, iter>>

\* playsound.playsound returns; text_to_speech returns
PlayOk ==
  /\ pc = "play"
  /\ pc' = "listen"
  /\ LET p == get_audio_filename(target_lang, translation) IN
       /\ log' = Append(log, Ev("play", p, "ok"))
       /\ played' = IF played[text] = "" THEN [played EXCEPT ![text] = p]
                    ELSE played
  /\ DeadLocals
  /\ UNCHANGED <<object, disk, clock, evict, ending, submitted, synthesized, iter>>

\* playsound.playsound raises
PlayFail ==
  /\ pc = "play"
  /\ AttemptFailed(Append(log, Ev("play", get_audio_filename(target_lang, translation),
                                 "Exception")))
  /\ UNCHANGED <<object, disk, clock, evict, ending, history, iter>>

\* time.sleep(1) of text_to_speech returns; the for loop goes on
RetrySleep ==
  /\ pc = "retry_sleep"
  /\ LET lg == Append(log, Ev("sleep", "1", "ok")) IN
       IF attempt + 1 < max_retries
         THEN /\ EnterAttempt(translation, attempt + 1, lg)
              /\ UNCHANGED <<text, translation, cal_pass>>
         ELSE /\ pc' = "listen"
              /\ log' = lg
              /\ DeadLocals
              /\ UNCHANGED <<synthesized>>
  /\ UNCHANGED <<object, disk, clock, evict, ending, submitted, played, iter>>

\* time.sleep(1) of the "except Exception" clause returns
Cooldown ==
  /\ pc = "cooldown"
  /\ pc' = "listen"
  /\ log' = Append(log, Ev("sleep", "1", "ok"))
  /\ UNCHANGED <<object, disk, clock, locals, evict, ending, history, iter>>

\* ------------------------------------------------------- KeyboardInterrupt
\* the calls made inside "try:" of listen_and_translate
TryPcs == {"mic", "calibrate", "listen", "recognize", "pause", "translate",
           "synthesize", "play", "retry_sleep", "cooldown"}

\* the calls of the "while True" body
LoopPcs == TryPcs \ {"mic", "calibrate"}

\* the argument of the call in progress
CallArg ==
  CASE pc \in {"recognize", "listen", "mic"} -> ""
    [] pc = "calibrate" -> "1"
    [] pc = "pause" -> "0.5"
    [] pc \in {"retry_sleep", "cooldown"} -> "1"
    [] pc = "translate" -> text
    [] pc \in {"synthesize", "play"} -> get_audio_filename(target_lang, translation)

CallOp == IF pc \in {"pause", "retry_sleep", "cooldown"} THEN "sleep" ELSE pc

OnKeyboardInterrupt_nofinally == "exited"

\* except KeyboardInterrupt: print(...)  finally: self.cleanup()
OnKeyboardInterrupt == "cleanup"

\* Ctrl+C: KeyboardInterrupt is raised inside the call in progress; no
\* "except Exception" clause catches it, so the call is abandoned
Interrupt ==
  /\ pc \in TryPcs
  /\ pc' = OnKeyboardInterrupt
  /\ cancelled' = TRUE
  /\ exit_status' = "KeyboardInterrupt"
  /\ log' = <<Ev(CallOp, CallArg, "KeyboardInterrupt")>>
  /\ files' \in IF pc = "synthesize"
                  THEN Leftover(files, get_audio_filename(target_lang, translation), now)
                  ELSE {files}
  /\ DeadObject
  /\ UNCHANGED <<dir_exists, clock, evict, cleanupRuns, sweep, iter>>

\* ------------------------------------------------------------------ cleanup
\* self.cache_dir.glob("*.mp3")
Present(fs) == {p \in Paths : fs[p].exists}

Expired_ge(t, mtime) == t - mtime >= TTL

\* current_time - file.stat().st_mtime > 86400
Expired(t, mtime) == t - mtime > TTL

\* the files the loop of cleanup removes: those it examined, found expired and
\* whose unlink did not raise
Unlinked(fs, t, examined, unlink_failed) ==
  {p \in examined : Expired(t, fs[p].mtime) /\ p \notin unlink_failed}

\* cleanup(), called from the finally clause; the process exits after it.
\* glob yields the files in any order and file.stat() may raise on any of them,
\* which ends the loop: the files examined are any subset, all of them when
\* nothing raised; file.unlink() may raise on any examined file
Cleanup ==
  /\ pc = "cleanup"
  /\ \E examined \in SUBSET Present(files) :
       \E unlink_failed \in SUBSET {p \in examined : Expired(now, files[p].mtime)} :
         /\ files' = [p \in Paths |->
                        IF p \in Unlinked(files, now, examined, unlink_failed)
                          THEN NoFile ELSE files[p]]
         /\ sweep' = [time |-> now, before |-> files,
                      raised |-> (examined # Present(files)),
                      examined |-> examined, unlink_failed |-> unlink_failed]
         /\ exit_status' = IF examined # Present(files) THEN "Exception"
                           ELSE exit_status
  /\ cleanupRuns' = cleanupRuns + 1
  /\ pc' = "exited"
  /\ log' = <<>>
  /\ UNCHANGED <<object, dir_exists, clock, locals, evict, cancelled, history,
                 iter>>

\* --------------------------------------------------------------- environment
\* the program is started again; the cache directory is what the last run left
Restart ==
  /\ pc = "exited"
  /\ pc' = "construct"
  /\ exit_status' = "running"
  /\ cancelled' = FALSE
  /\ cleanupRuns' = 0
  /\ sweep' = NoSweep
  /\ UNCHANGED <<object, disk, clock, locals, evict, log, history, iter>>

\* time passes while the process waits for speech.  The clock is only ever
\* compared with the mtime of a file, so its advance shows only once a file exists
Tick ==
  /\ pc = "listen"
  /\ Present(files) # {}
  /\ ticks < MaxTicks
  /\ ticks' = ticks + 1
  /\ \E d \in TickSteps : now' = now + d
  /\ UNCHANGED <<pc, object, disk, locals, evict, ending, log, history, iter>>

Next ==
  \/ ConstructOk \/ ConstructFail \/ ConstructInterrupt
  \/ OpenMicrophoneOk \/ OpenMicrophoneFail
  \/ CalibrateOk \/ CalibrateFail
  \/ ListenOk \/ ListenFail
  \/ RecognizeOk \/ RecognizeFail
  \/ Pause
  \/ TranslateOk \/ TranslateFail
  \/ SynthesizeOk \/ SynthesizeFail
  \/ PlayOk \/ PlayFail
  \/ RetrySleep
  \/ Cooldown
  \/ Interrupt
  \/ Cleanup
  \/ Restart
  \/ Tick

Spec == Init /\ [][Next]_vars


\* ------------------------------------------------------------- manage_cache
\* int(max_cache_size * 0.2): 0.2 is the double just above 1/5, so the product
\* truncates to the integer quotient of max_cache_size by 5
items_to_remove_tenth(m) == m \div 10

\* int(max_cache_size * 0.2)
items_to_remove(m) == (m * 2) \div 10

RECURSIVE PopOldest(_, _)
\* for _ in range(n): self.translation_cache.pop(next(iter(self.translation_cache)))
PopOldest(d, n) == IF n = 0 THEN d ELSE PopOldest(Tail(d), n - 1)

manage_cache_bylen(d, m) ==
  IF Len(d) > m THEN PopOldest(d, items_to_remove(Len(d))) ELSE d

\* manage_cache(self, max_cache_size)
manage_cache(d, m) ==
  IF Len(d) > m THEN PopOldest(d, items_to_remove(m)) ELSE d

\* keys and values of the caches given to manage_cache
KeyPool == <<"one", "two", "three", "four", "five", "six", "seven", "eight",
             "nine", "ten", "eleven", "twelve", "thirteen">>
ValuePool == <<"un", "deux", "trois">>
Strides == {1, 5}

\* a dict of n entries: n distinct keys in the order of their insertion
CacheOf(n, start, stride) ==
  [i \in 1..n |->
     [k |-> KeyPool[((start + stride * (i - 1)) % Len(KeyPool)) + 1],
      v |-> ValuePool[((start + i) % Len(ValuePool)) + 1]]]

EvictCaches ==
  {CacheOf(n, start, stride) :
     n \in 0..MaxCacheLen, start \in 0..(Len(KeyPool) - 1), stride \in Strides}

\* manage_cache has no caller in app.py: it is modelled as a call made on a
\* translator object holding any cache, with any max_cache_size
EvictInit ==
  /\ pc = "manage_cache"
  /\ translation_cache \in EvictCaches
  /\ max_cache_size \in 0..MaxCacheSize
  /\ cache_before = <<>>
  /\ target_lang = "fr"
  /\ dir_exists = TRUE
  /\ files = [p \in Paths |-> NoFile]
  /\ now = 0
  /\ text = ""
  /\ translation = ""
  /\ attempt = 0
  /\ cal_pass = 0
  /\ exit_status = "running"
  /\ log = <<>>
  /\ submitted = {}
  /\ synthesized = {}
  /\ played = [t \in Texts |-> ""]
  /\ cancelled = FALSE
  /\ cleanupRuns = 0
  /\ sweep = NoSweep
  /\ iter = 0
  /\ ticks = 0

ManageCache ==
  /\ pc = "manage_cache"
  /\ cache_before' = translation_cache
  /\ translation_cache' = manage_cache(translation_cache, max_cache_size)
  /\ pc' = "managed"
  /\ UNCHANGED <<target_lang, disk, clock, locals, max_cache_size, ending, log,
                 history, iter>>

EvictNext == ManageCache

SpecEvict == EvictInit /\ [][EvictNext]_vars


\* ==================================================================== claims
Last(lg) == lg[Len(lg)]

HasOp(lg, op) == \E i \in 1..Len(lg) : lg[i].op = op

FailureOuts == {"WaitTimeoutError", "UnknownValueError", "RequestError",
                "Exception", "failed"}

NoFailure(lg) ==
  \A i \in 1..Len(lg) : lg[i].out \notin FailureOuts \cup {"KeyboardInterrupt"}

\* the path the specification gives an artifact: audio_{lang}_{md5(text)}.mp3
\* in the cache directory
ExpectedPath(lang, x) == "translation_cache/audio_" \o lang \o "_" \o md5(x) \o ".mp3"

\* ------------------------------------------------------------------------ C1
\* C1 as stated: within one session the translation engine is invoked at most
\* once for each distinct recognized text (a text once given to the engine is
\* never given to it again).
C1_Original ==
  [][(pc = "pause" /\ pc' = "translate") => text \notin submitted]_vars

\* C1 amended: within one session the engine is invoked for a recognized text
\* only while the cache holds no entry for it; a translation that succeeds is
\* stored under the exact text; the entry then stays, with the value of that
\* first successful translation, for the rest of the session; and an utterance
\* whose text has an entry is served from the cache, with that value, without
\* an engine call.  (A text whose translation failed is given to the engine
\* again at its next utterance.)
C1_Theorem ==
  [][ /\ (pc = "pause" /\ pc' = "translate") => ~InCache(translation_cache, text)
      /\ (pc = "pause" /\ InCache(translation_cache, text) /\ pc' \in LoopPcs) =>
           /\ pc' # "translate"
           /\ submitted' = submitted
           /\ pc' \in {"synthesize", "play"} =>
                translation' = Lookup(translation_cache, text)
      /\ (pc = "translate" /\ pc' \in {"synthesize", "play"}) =>
           /\ InCache(translation_cache', text)
           /\ Lookup(translation_cache', text) = translation'
           /\ Last(log').arg = ExpectedPath(target_lang, translation')
      /\ (pc \in LoopPcs /\ pc' \in LoopPcs) =>
           /\ Cardinality(Keys(translation_cache')) = Len(translation_cache')
           /\ \A t \in Keys(translation_cache) :
                /\ InCache(translation_cache', t)
                /\ Lookup(translation_cache', t) = Lookup(translation_cache, t)
    ]_vars

\* a later utterance of a text translated earlier in the session has been
\* served from the cache and played, with no translate call
C1_Witness ==
  /\ pc = "listen"
  /\ Len(log) >= 2
  /\ log[2].op = "recognize" /\ log[2].out = "ok"
  /\ log[2].arg \in submitted
  /\ InCache(translation_cache, log[2].arg)
  /\ ~HasOp(log, "translate")
  /\ Last(log).op = "play" /\ Last(log).out = "ok"

\* ------------------------------------------------------------------------ C2
\* C2 as stated: for any (translatedText, targetLanguage) pair the synthesis
\* engine is invoked at most once (here: already within one run, a path once
\* given to the engine is never given to it again).
C2_Original ==
  [][(pc # "synthesize" /\ pc' = "synthesize") =>
       get_audio_filename(target_lang, translation') \notin synthesized]_vars

\* C2 amended: text_to_speech calls the synthesis engine only when no file
\* exists at the path audio_{targetLanguage}_{md5(text)}.mp3 of the cache
\* directory, whoever wrote that file (this run or an earlier one), and plays
\* the existing file otherwise; the same pair always resolves to the same path
\* and pairs of different target languages to different paths.  (The engine is
\* invoked again for a pair after an attempt that left no file, and after the
\* file was swept.)
C2_Theorem ==
  [][ /\ (pc # "synthesize" /\ pc' = "synthesize") =>
           /\ Last(log') = Ev("exists", ExpectedPath(target_lang, translation'), "False")
           /\ ~files[ExpectedPath(target_lang, translation')].exists
      /\ (pc \notin {"synthesize", "play"} /\ pc' = "play") =>
           /\ Last(log') = Ev("exists", ExpectedPath(target_lang, translation'), "True")
           /\ files[ExpectedPath(target_lang, translation')].exists
      /\ (pc = "construct" /\ pc' = "mic") =>
           \A l \in Langs \ {target_lang'} : \A x1, x2 \in Translations :
             /\ get_audio_filename(target_lang', x1) = ExpectedPath(target_lang', x1)
             /\ get_audio_filename(target_lang', x1) # get_audio_filename(l, x2)
    ]_vars

\* an artifact written by an earlier run is found at the path and played
\* without a call of the engine
C2_Witness ==
  /\ pc = "play"
  /\ Last(log) = Ev("exists", ExpectedPath(target_lang, translation), "True")
  /\ ExpectedPath(target_lang, translation) \notin synthesized
  /\ files[ExpectedPath(target_lang, translation)].complete

\* ------------------------------------------------------------------------ C3
Attempts(lg) == Cardinality({i \in 1..Len(lg) : lg[i].op = "exists"})

Failures(lg) ==
  Cardinality({i \in 1..Len(lg) :
                 lg[i].op \in {"synthesize", "play"} /\ lg[i].out = "Exception"})

Successes(lg) ==
  Cardinality({i \in 1..Len(lg) : lg[i].op = "play" /\ lg[i].out = "ok"})

Sleeps(lg) == Cardinality({i \in 1..Len(lg) : lg[i] = Ev("sleep", "1", "ok")})

\* C3: when text_to_speech has returned, either its action (synthesize if the
\* file is missing, then play) succeeded after k < 3 failed attempts, and then
\* there were exactly k+1 attempts, exactly k one-second sleeps and nothing
\* after the success; or all attempts failed, and then there were exactly 3
\* attempts, exactly 2 sleeps, none after the last attempt, and the failure was
\* reported.  No exception of an attempt reaches the handlers of the loop.
C3_Theorem ==
  /\ (pc = "listen" /\ Attempts(log) > 0) =>
       IF Successes(log) > 0
         THEN /\ Successes(log) = 1
              /\ Last(log).op = "play" /\ Last(log).out = "ok"
              /\ Failures(log) < 3
              /\ Attempts(log) = Failures(log) + 1
              /\ Sleeps(log) = Failures(log)
         ELSE /\ Failures(log) = 3
              /\ Attempts(log) = 3
              /\ Sleeps(log) = 2
              /\ Last(log) = Ev("report", "text_to_speech", "failed")
              /\ log[Len(log) - 1].out = "Exception"
  /\ (pc = "cooldown" \/ (pc = "cleanup" /\ ~cancelled)) => Attempts(log) = 0

\* two failed attempts, then a success: 3 attempts, 2 sleeps
C3_Witness ==
  /\ pc = "listen"
  /\ Failures(log) = 2
  /\ Successes(log) = 1
  /\ Attempts(log) = 3
  /\ Sleeps(log) = 2

\* ------------------------------------------------------------------------ C4
\* C4 as stated: after a successful construction the session is left (the
\* finally clause is entered) only through a cancellation.
C4_Original ==
  [][(pc \notin {"construct", "cleanup"} /\ pc' = "cleanup") => cancelled']_vars

\* C4 amended: from a call of the loop body the process goes to another call
\* of the loop body, whatever the outcome of the call, except by a
\* cancellation; a failed call leads to listen, to the cooldown that leads to
\* listen, or to the retry sleep of text_to_speech, whose attempts are bounded;
\* and after a successful construction the session is left only through a
\* cancellation or, before calibration, because the microphone cannot be
\* opened.
C4_Theorem ==
  [][ /\ (pc \in LoopPcs) =>
           /\ pc' \in LoopPcs \/ (pc' = "cleanup" /\ cancelled' /\ ~cancelled)
           /\ (pc' \in LoopPcs /\ log' # log /\ Last(log').out \in FailureOuts) =>
                pc' \in {"listen", "cooldown", "retry_sleep"}
           /\ (pc = "cooldown" /\ pc' \in LoopPcs) => pc' = "listen"
           /\ (pc = "retry_sleep" /\ pc' \in LoopPcs) =>
                pc' \in {"synthesize", "play", "listen"}
           /\ attempt' < max_retries
      /\ (pc = "calibrate") =>
           pc' \in {"calibrate", "listen"} \/ (pc' = "cleanup" /\ cancelled')
      /\ (pc \notin {"construct", "cleanup"} /\ pc' \in {"cleanup", "exited"}) =>
           cancelled' \/ (pc = "mic" /\ pc' = "cleanup" /\ Last(log').op = "mic")
    ]_vars

\* the translation engine failed and the loop is listening again
C4_Witness ==
  /\ pc = "listen"
  /\ Len(log) >= 2
  /\ log[Len(log) - 1].op = "translate"
  /\ log[Len(log) - 1].out = "Exception"
  /\ Last(log) = Ev("sleep", "1", "ok")

\* ------------------------------------------------------------------------ C5
\* C5: after a KeyboardInterrupt raised inside the try block (calibration, any
\* call of the loop, any sleep) no call is made but cleanup, cleanup is called
\* exactly once, and the process has exited only after it.
C5_Theorem ==
  /\ [](cleanupRuns <= 1)
  /\ []((pc = "exited" /\ cancelled /\ exit_status # "killed") => cleanupRuns = 1)
  /\ [][ /\ (pc \in TryPcs /\ cancelled' /\ ~cancelled) =>
              (pc' = "cleanup" /\ cleanupRuns' = 0)
         /\ (cancelled /\ pc = "cleanup") => pc' = "exited"
         /\ (cancelled /\ pc = "exited") => pc' = "construct"
     ]_vars

\* the session was cancelled after an utterance and has exited after one cleanup
C5_Witness ==
  /\ pc = "exited"
  /\ cancelled
  /\ exit_status = "KeyboardInterrupt"
  /\ cleanupRuns = 1
  /\ iter > 0

\* ------------------------------------------------------------------------ C6
\* C6 as stated: an interrupt takes effect only at a stage boundary, so when
\* the controller has moved to Stopped the call that was in progress (in
\* particular the translation whose result is then cached, and the synthesis
\* that writes the artifact) was not abandoned.
C6_Claim ==
  (pc = "cleanup" /\ cancelled) => log[1].op \notin {"translate", "synthesize"}

\* ------------------------------------------------------------------------ C7
\* the longest period of the eviction call the sessions explored can show: one
\* call for as many inserts as there are distinct texts
EvictionPeriod == Cardinality(Texts)

\* C7 as stated: the controller calls manage_cache periodically (once per N
\* iterations or once per insert): when EvictionPeriod utterances with
\* distinct texts have been inserted, a call of manage_cache has been made
\* (and has recorded the cache it was given).
C7_Claim == Len(translation_cache) >= EvictionPeriod => cache_before # <<>>

\* ------------------------------------------------------------------------ C8
\* C8: after manage_cache(maxSize) on a cache of more than maxSize entries,
\* exactly floor(0.2 * maxSize) entries are gone, they are the oldest ones, and
\* the others keep their values and their order; a cache of at most maxSize
\* entries is unchanged.
C8_Theorem ==
  pc = "managed" =>
    IF Len(cache_before) > max_cache_size
      THEN /\ Len(translation_cache) = Len(cache_before) - (max_cache_size \div 5)
           /\ \A i \in 1..Len(translation_cache) :
                translation_cache[i] = cache_before[i + (max_cache_size \div 5)]
      ELSE translation_cache = cache_before

\* maxSize = 10 and 11 entries: the 2 oldest are gone, the 9 newest remain
C8_Witness ==
  /\ pc = "managed"
  /\ max_cache_size = 10
  /\ Len(cache_before) = 11
  /\ translation_cache = SubSeq(cache_before, 3, 11)

\* ------------------------------------------------------------------------ C9
\* C9 as stated: after cleanup every artifact older than 24 hours is deleted
\* and every other artifact is still present and unmodified.
C9_Original ==
  [][(pc = "cleanup" /\ pc' = "exited") =>
       \A p \in Paths : files[p].exists =>
         IF now - files[p].mtime > 86400 THEN ~files'[p].exists
                                         ELSE files'[p] = files[p]]_vars

\* C9 amended: after cleanup every artifact whose last-modified time is 24 hours
\* or less in the past is still present and unmodified, and every artifact whose
\* last-modified time is more than 24 hours in the past has been deleted, except
\* those whose deletion failed and those the sweep did not reach because an
\* error while examining a file ended it; these are unmodified.
C9_Theorem ==
  [][(pc = "cleanup" /\ pc' = "exited") =>
       \A p \in Paths :
         /\ ~files[p].exists => ~files'[p].exists
         /\ files[p].exists =>
              IF now - files[p].mtime > 86400
                THEN \/ ~files'[p].exists
                     \/ /\ files'[p] = files[p]
                        /\ p \in sweep'.unlink_failed \/ p \notin sweep'.examined
                ELSE files'[p] = files[p]]_vars

\* one sweep deleted a 25 hours old artifact and kept a 1 hour old one
C9_Witness ==
  /\ pc = "exited"
  /\ \E p, q \in Paths :
       /\ sweep.before[p].exists
       /\ sweep.time - sweep.before[p].mtime = 90000
       /\ ~files[p].exists
       /\ sweep.before[q].exists
       /\ sweep.time - sweep.before[q].mtime = 3600
       /\ files[q] = sweep.before[q]

\* ----------------------------------------------------------------------- C10
MissAbsent(t, tr, p) ==
  <<Ev("listen", "", "ok"), Ev("recognize", t, "ok"), Ev("sleep", "0.5", "ok"),
    Ev("translate", t, tr), Ev("exists", p, "False"), Ev("synthesize", p, "ok"),
    Ev("play", p, "ok")>>

MissPresent(t, tr, p) ==
  <<Ev("listen", "", "ok"), Ev("recognize", t, "ok"), Ev("sleep", "0.5", "ok"),
    Ev("translate", t, tr), Ev("exists", p, "True"), Ev("play", p, "ok")>>

Hit(t, p) ==
  <<Ev("listen", "", "ok"), Ev("recognize", t, "ok"), Ev("sleep", "0.5", "ok"),
    Ev("exists", p, "True"), Ev("play", p, "ok")>>

\* C10 as stated: an utterance in which no call fails and in which the text is
\* translated makes one translate call, one synthesize call that writes the
\* artifact at the deterministic path, and one play call with that path; an
\* utterance of a text played before in the session makes no translate and no
\* synthesize call and plays the same path.
C10_Original ==
  [][(pc = "play" /\ pc' = "listen" /\ NoFailure(log')) =>
       /\ HasOp(log', "translate") =>
            /\ log' = MissAbsent(text, translation,
                                 ExpectedPath(target_lang, translation))
            /\ files'[ExpectedPath(target_lang, translation)].complete
       /\ played[text] # "" => log' = Hit(text, played[text])
    ]_vars

\* C10 amended: as stated when no artifact exists at the deterministic path at
\* the first utterance of the text; when one exists already (left by an earlier
\* run, or written for another text with the same translation) the first
\* utterance makes one translate call, no synthesize call and one play call
\* with that path.
C10_Theorem ==
  [][(pc = "play" /\ pc' = "listen" /\ NoFailure(log')) =>
       /\ HasOp(log', "translate") =>
            \/ /\ log' = MissAbsent(text, translation,
                                    ExpectedPath(target_lang, translation))
               /\ files'[ExpectedPath(target_lang, translation)].complete
               /\ played'[text] = ExpectedPath(target_lang, translation)
            \/ /\ log' = MissPresent(text, translation,
                                     ExpectedPath(target_lang, translation))
               /\ played'[text] = ExpectedPath(target_lang, translation)
       /\ played[text] # "" => log' = Hit(text, played[text])
    ]_vars

\* an utterance of a text played before: no translate, no synthesize, same path
C10_Witness ==
  /\ pc = "listen"
  /\ \E t \in Texts :
       /\ played[t] # ""
       /\ t \in submitted
       /\ played[t] \in synthesized
       /\ log = Hit(t, played[t])

\* ----------------------------------------------------------------------- C11
\* the place of a call in the order of the stages of one utterance
Rank(e) ==
  CASE e.op = "calibrate" -> 0
    [] e.op = "listen" -> 1
    [] e.op = "recognize" -> 2
    [] e = Ev("sleep", "0.5", "ok") -> 3
    [] e.op = "translate" -> 4
    [] OTHER -> 5

\* C11: the calls of one utterance are made in the order capture, recognize,
\* translate, synthesize, play, each after the previous one has returned and
\* each stage before text_to_speech at most once; play is called only with a
\* resolved translation, right after the existence test or the synthesis of
\* its path; and listen is called again only when text_to_speech has played
\* the artifact or has failed max_retries times, retry sleeps included.
C11_Theorem ==
  /\ [](pc \in LoopPcs =>
         /\ \A i, j \in 1..Len(log) :
              i < j => /\ Rank(log[i]) <= Rank(log[j])
                       /\ Rank(log[i]) \in 1..4 => Rank(log[i]) < Rank(log[j])
         /\ \A i \in 1..Len(log) :
              /\ log[i].op = "play" =>
                   /\ i > 1
                   /\ log[i - 1] \in {Ev("exists", log[i].arg, "True"),
                                      Ev("synthesize", log[i].arg, "ok")}
              /\ log[i].op = "synthesize" =>
                   /\ i > 1
                   /\ log[i - 1] = Ev("exists", log[i].arg, "False")
         /\ pc \in {"synthesize", "play"} =>
              /\ translation \in Translations
              /\ \/ Ev("translate", text, translation) \in {log[i] : i \in 1..Len(log)}
                 \/ /\ InCache(translation_cache, text)
                    /\ Lookup(translation_cache, text) = translation)
  /\ [][ /\ (pc' = "recognize" /\ pc # "recognize") => pc = "listen"
         /\ (pc' = "pause") => pc \in {"recognize", "pause"}
         /\ (pc' = "translate") => pc \in {"pause", "translate"}
         /\ (pc' \in {"synthesize", "play"}) =>
              pc \in {"pause", "translate", "synthesize", "play", "retry_sleep"}
         /\ (pc \in {"synthesize", "play", "retry_sleep"} /\ pc' = "listen") =>
              \/ Last(log') = Ev("play", ExpectedPath(target_lang, translation), "ok")
              \/ /\ Last(log') = Ev("report", "text_to_speech", "failed")
                 /\ Cardinality({i \in 1..Len(log') : log'[i].op = "exists"}) = 3
                 /\ Cardinality({i \in 1..Len(log') :
                                   log'[i] = Ev("sleep", "1", "ok")}) = 2
     ]_vars

\* an utterance went through every stage, one retry included, before the loop
\* listens again
C11_Witness ==
  /\ pc = "listen"
  /\ HasOp(log, "translate")
  /\ HasOp(log, "synthesize")
  /\ Failures(log) = 1
  /\ Sleeps(log) = 1
  /\ Last(log).op = "play" /\ Last(log).out = "ok"

\* ----------------------------------------------------------------------- C12
\* C12: an attempt of text_to_speech that finds no file at the deterministic
\* path calls the synthesis engine before it plays, the missing file itself is
\* no failure, and play is only ever called with a path at which a file exists.
C12_Theorem ==
  /\ [](pc = "play" => files[ExpectedPath(target_lang, translation)].exists)
  /\ [][ /\ (pc' \in LoopPcs /\ log' # log /\ Last(log').op = "exists"
               /\ Last(log').out = "False") =>
              /\ pc' = "synthesize"
              /\ ~files[Last(log').arg].exists
         /\ (pc' \in LoopPcs /\ log' # log /\ Last(log').op = "exists"
               /\ ~files[Last(log').arg].exists) =>
              /\ pc' = "synthesize"
              /\ Last(log').out = "False"
         /\ (pc = "synthesize" /\ pc' = "play") =>
              /\ Last(log') = Ev("synthesize", ExpectedPath(target_lang, translation), "ok")
              /\ files'[ExpectedPath(target_lang, translation)].exists
     ]_vars

\* the file was missing at the first attempt and still missing at the second
\* one, which has synthesized it and is about to play it
C12_Witness ==
  /\ pc = "play"
  /\ attempt = 1
  /\ Cardinality({i \in 1..Len(log) : log[i].op = "exists" /\ log[i].out = "False"}) = 2
  /\ Last(log) = Ev("synthesize", ExpectedPath(target_lang, translation), "ok")

\* ----------------------------------------------------------------------- C13
CaptureFailures == {"WaitTimeoutError", "UnknownValueError", "RequestError"}

\* C13: when listen raises WaitTimeoutError, or recognize_google raises
\* UnknownValueError or RequestError, the next call is listen, no translate,
\* synthesize or play call has been made for the iteration, and the
\* translation cache and the files of the cache directory are unchanged.
C13_Theorem ==
  [][(pc \in {"listen", "recognize"} /\ log' # log
        /\ Last(log').out \in CaptureFailures) =>
       /\ pc' = "listen"
       /\ translation_cache' = translation_cache
       /\ files' = files
       /\ history' = history
       /\ \A i \in 1..Len(log') : log'[i].op \in {"calibrate", "listen", "recognize"}
    ]_vars

\* unintelligible audio with a translation in the cache and an artifact on disk
C13_Witness ==
  /\ pc = "listen"
  /\ Last(log) = Ev("recognize", "", "UnknownValueError")
  /\ translation_cache # <<>>
  /\ Present(files) # {}

\* ----------------------------------------------------------------------- C14
\* the calibration calls that returned, then the one that raised, if any
CalibrationLog(k, failed) ==
  [i \in 1..k |-> Ev("calibrate", "1", "ok")]
    \o (IF failed THEN <<Ev("calibrate", "1", "Exception")>> ELSE <<>>)

\* C14: calibration is entered once per session, from the opening of the
\* microphone and before the first listen call; it ends in listen after 3
\* passes of 1 second that returned, or after fewer passes followed by one that
\* raised, with no pass after that one; nothing but a cancellation leads from
\* calibration to the end of the session.
C14_Theorem ==
  [][ /\ (pc' = "calibrate") => pc \in {"mic", "calibrate"}
      /\ (pc' = "listen" /\ pc \notin LoopPcs) => pc = "calibrate"
      /\ (pc = "calibrate") =>
           \/ pc' = "calibrate" /\ Len(log') < 3
           \/ /\ pc' = "listen"
              /\ log' \in {CalibrationLog(3, FALSE), CalibrationLog(0, TRUE),
                           CalibrationLog(1, TRUE), CalibrationLog(2, TRUE)}
           \/ pc' = "cleanup" /\ cancelled'
    ]_vars

\* the second pass raised and the session listens
C14_Witness ==
  /\ pc = "listen"
  /\ log = CalibrationLog(1, TRUE)

\* ----------------------------------------------------------------------- C15
\* C15: when the probe translation of __init__ fails the process exits with
\* the error reported by main: no call of the session has been made, the cache
\* directory has not been created, no file has changed and cleanup has not run.
C15_Theorem ==
  /\ []((pc = "exited" /\ exit_status = "ValueError") =>
          /\ log = <<>>
          /\ cleanupRuns = 0
          /\ sweep = NoSweep
          /\ translation_cache = <<>>
          /\ ~cancelled)
  /\ [][ /\ (pc = "construct" /\ exit_status' = "ValueError") =>
              /\ pc' = "exited"
              /\ dir_exists' = dir_exists
              /\ files' = files
         /\ (pc = "exited" /\ exit_status = "ValueError") =>
              pc' \in {"exited", "construct"}
     ]_vars

\* the first run ever failed at the probe: there is no cache directory
C15_Witness ==
  /\ pc = "exited"
  /\ exit_status = "ValueError"
  /\ ~dir_exists

\* ----------------------------------------------------------------------- C16
\* C16 as stated: cleanup never raises: whatever fails while one artifact is
\* examined or deleted, the sweep examines every artifact of the directory and
\* returns normally.
C16_Claim ==
  (pc = "exited" /\ cleanupRuns = 1) =>
     /\ ~sweep.raised
     /\ sweep.examined = Present(sweep.before)

\* ----------------------------------------------------------------------- C17
\* C17: when translate raises, the next call is the 1-second sleep of the
\* "except Exception" clause, then listen, with no existence test, synthesize
\* or play call for the utterance and exactly one such sleep; that sleep is
\* entered only after a call of the loop body raised an exception no other
\* clause names, never after WaitTimeoutError, UnknownValueError, RequestError
\* or the exhaustion of the attempts of text_to_speech.
C17_Theorem ==
  [][ /\ (pc = "translate" /\ log' # log /\ Last(log').out = "Exception") =>
           /\ pc' = "cooldown"
           /\ Last(log') = Ev("translate", text, "Exception")
           /\ \A i \in 1..Len(log') :
                log'[i].op \notin {"exists", "synthesize", "play"}
      /\ (pc = "cooldown" /\ pc' \in LoopPcs) =>
           \/ UNCHANGED <<pc, log>>
           \/ /\ pc' = "listen"
              /\ log' = Append(log, Ev("sleep", "1", "ok"))
              /\ Cardinality({i \in 1..Len(log') : log'[i] = Ev("sleep", "1", "ok")}) = 1
      /\ (pc' = "cooldown" /\ pc # "cooldown") =>
           /\ pc \in {"listen", "recognize", "translate"}
           /\ Last(log') = Ev(pc, IF pc = "translate" THEN text ELSE "", "Exception")
      /\ (pc \in LoopPcs /\ log' # log
            /\ Last(log').out \in CaptureFailures \cup {"failed"}) => pc' = "listen"
    ]_vars

\* a failed translation, one cooldown, and the loop listens
C17_Witness ==
  /\ pc = "listen"
  /\ \E t \in Texts :
       log = <<Ev("listen", "", "ok"), Ev("recognize", t, "ok"),
               Ev("sleep", "0.5", "ok"), Ev("translate", t, "Exception"),
               Ev("sleep", "1", "ok")>>

\* ----------------------------------------------------------------------- C18
\* C18 as stated: a file exists at a deterministic path only if a synthesis of
\* its pair completed, so the file that play is called with is a complete
\* artifact.
C18_Claim ==
  /\ \A p \in Paths : files[p].exists => files[p].complete
  /\ pc = "play" => files[get_audio_filename(target_lang, translation)].complete

\* ----------------------------------------------------------------------- C19
\* C19: while the session runs the translation cache changes only when a
\* translate call returns, by one new entry for the text of the utterance,
\* which had none, holding the returned translation; a call that fails, be it
\* translate, synthesize or play, or the exhaustion of the attempts, leaves the
\* cache as it was; keys are unique.
C19_Theorem ==
  /\ [](pc \in LoopPcs =>
          /\ Cardinality(Keys(translation_cache)) = Len(translation_cache)
          /\ \A i \in 1..Len(translation_cache) :
               /\ translation_cache[i].k \in submitted
               /\ translation_cache[i].v \in Translations)
  /\ [][(pc \in LoopPcs /\ pc' \in LoopPcs) =>
          /\ \/ translation_cache' = translation_cache
             \/ /\ pc = "translate"
                /\ Last(log').op = "exists"
                /\ log'[Len(log') - 1] = Ev("translate", text, translation')
                /\ translation' \in Translations
                /\ ~InCache(translation_cache, text)
                /\ translation_cache' =
                     Append(translation_cache, [k |-> text, v |-> translation'])
          /\ (log' # log /\ Last(log').out \in FailureOuts) =>
               translation_cache' = translation_cache
     ]_vars

\* every attempt to speak a translation failed; its entry is in the cache
C19_Witness ==
  /\ pc = "listen"
  /\ Last(log) = Ev("report", "text_to_speech", "failed")
  /\ HasOp(log, "translate")
  /\ InCache(translation_cache, log[2].arg)

\* ----------------------------------------------------------------------- C20
\* C20 as stated: after manage_cache(maxSize) the cache holds at most maxSize
\* entries, for every maxSize >= 1 and every size of the cache before the call.
C20_Original ==
  (pc = "managed" /\ max_cache_size >= 1) =>
     Len(translation_cache) <= max_cache_size

\* C20 amended: after manage_cache(maxSize), maxSize >= 1, on a cache of n
\* entries the cache holds at most maxSize entries when
\* n <= maxSize + floor(0.2 * maxSize); a larger cache is left with
\* n - floor(0.2 * maxSize) entries, which is more than maxSize.
C20_Theorem ==
  (pc = "managed" /\ max_cache_size >= 1) =>
     IF Len(cache_before) <= max_cache_size + (max_cache_size \div 5)
       THEN Len(translation_cache) <= max_cache_size
       ELSE /\ Len(translation_cache) = Len(cache_before) - (max_cache_size \div 5)
            /\ Len(translation_cache) > max_cache_size

\* maxSize = 5 and 6 entries: one is removed and 5 remain
C20_Witness ==
  /\ pc = "managed"
  /\ max_cache_size = 5
  /\ Len(cache_before) = 6
  /\ Len(translation_cache) = 5

=============================================================================
